---- MODULE Spec2Model ----
(***************************************************************************)
(* Model of the quiz-hosting backend in src/index.js.                      *)
(*                                                                         *)
(* The state is the document store (the Quiz and Submission collections),  *)
(* the wall clock and, per request slot, the position of one request       *)
(* handler together with its local variables.  A handler is split at its   *)
(* awaits: every store call is one atomic step at the store, and the       *)
(* JavaScript that runs between two store calls is a step of its own when  *)
(* it reads the clock (the clock may advance between a store call and the  *)
(* continuation that follows it).  A continuation that reads no clock      *)
(* commutes with every step of the other handlers and is merged with the   *)
(* store call before it.  out is the exchange completed by the last step:  *)
(* the handler's locals at the moment of its response, and the response.   *)
(*                                                                         *)
(* Three specifications share the handlers.  Spec runs two handlers at a   *)
(* time, with every interleaving of their steps, on the inputs of Lean;    *)
(* SeqSpec runs one handler at a time on the wider inputs of Rich, and     *)
(* WideSpec one handler at a time on two quiz codes, the inputs of Wide:   *)
(* the handlers that write and the two that report on the submissions.     *)
(*                                                                         *)
(* Document ids are compared for equality only, so a new document takes    *)
(* the least id that no stored document and no handler holds.              *)
(*                                                                         *)
(* Not modelled: the Creator collection and the register/login routes (the *)
(* token check is a choice of the requester's id), GET /api/quiz/my, and   *)
(* the description and createdAt fields of a quiz, which no handler reads, *)
(* and the _id of a submission, which no handler reads either.             *)
(***************************************************************************)
EXTENDS Integers, Sequences, FiniteSets, Bags, TLC

\* ---------------------------------------------------------------- bounds
MaxSubs == 2
MaxTime == 1001
MaxSkewMs == 1

\* ------------------------------------------------------------- constants
MsPerSecond == 1000
Undefined == -1
NoTime == -2

Procs == {1, 2}
Codes == {"AAAAAA", "BBBBBB"}
Durations == {1}
\* durations are whole seconds, so the clock values that matter lie within the
\* skew of a whole second
Instants == {t \in 0..MaxTime : t % MsPerSecond <= MaxSkewMs}
IdPool == 1..(Cardinality(Codes) + Cardinality(Procs))

Question(ci) == [text |-> "q", options |-> <<"a", "b">>, correctIndex |-> ci]

\* the inputs the requests are drawn from
Lean ==
  [codes |-> {"AAAAAA"},
   users |-> {"u1"},
   bodies |-> {[title |-> "Quiz", questions |-> <<Question(0), Question(1)>>]},
   rollNos |-> {"r1"},
   answers |-> {<<0, 1>>}]
Rich ==
  [codes |-> {"AAAAAA"},
   users |-> {"u1", "u2"},
   bodies |-> {[title |-> "Quiz", questions |-> <<Question(0), Question(1)>>],
               [title |-> "Quiz", questions |-> <<Question(1), Question(Undefined)>>],
               [title |-> "", questions |-> <<Question(0), Question(1)>>],
               [title |-> "Quiz", questions |-> <<>>]},
   rollNos |-> {"r1", "r2"},
   answers |-> {<<>>, <<0, 1>>, <<1, 1>>, <<1, 0, 2>>}]
Wide ==
  [codes |-> Codes,
   users |-> {"u1"},
   bodies |-> {[title |-> "Quiz", questions |-> <<Question(0), Question(1)>>]},
   rollNos |-> {"r1", "r2"},
   answers |-> {<<0, 1>>, <<1, 1>>}]

VARIABLES quizzes, subs, now, h, out

vars == <<quizzes, subs, now, h, out>>

\* ------------------------------------------------------------- documents
NoQuiz == [id |-> 0, code |-> "", title |-> "", duration |-> 0, creatorId |-> "",
           status |-> "", startTime |-> NoTime, endTime |-> NoTime, questions |-> <<>>]
NoDoc == [quizCode |-> "", name |-> "", branch |-> "", rollNo |-> "",
          answers |-> <<>>, score |-> 0, submittedAt |-> NoTime]
NoReq == [op |-> "", code |-> "", user |-> "", rollNo |-> "", answers |-> <<>>,
          body |-> <<>>]

\* a handler's locals: the request, the quiz and the submission its reads
\* returned, the document it builds; tchk is the clock value its expiry check
\* read, prior whether a submission of its (code, rollNo) was stored when it
\* began, purged whether a deleteMany for its code has run since, raced
\* whether another submit for its (code, rollNo) has been in flight with it,
\* rows the documents a find returned, in the order it returned them
Idle == [pc |-> "idle", req |-> NoReq, quiz |-> NoQuiz, found |-> FALSE,
         doc |-> NoDoc, tchk |-> NoTime, prior |-> FALSE, purged |-> FALSE,
         raced |-> FALSE, rows |-> <<>>]

Resp(status, msg, data) == [status |-> status, msg |-> msg, data |-> data]
Thrown(msg) == Resp(0, msg, <<>>)
NoOut == [slot |-> 0, call |-> Idle, resp |-> Resp(0, "", <<>>)]

\* Quiz.findOne({ code })
FindQuiz(code) ==
  IF \E q \in quizzes : q.code = code
    THEN CHOOSE q \in quizzes : q.code = code
    ELSE NoQuiz

\* a comparison that never finds t past d
AfterNever(t, d) == FALSE

\* t > d for a Date d; a comparison with an unset (undefined) Date is false
After(t, d) == d # NoTime /\ t > d

UsedIds == {q.id : q \in quizzes} \cup {h[p].quiz.id : p \in Procs}

\* the _id of a new document
FreshId == CHOOSE i \in IdPool : i \notin UsedIds /\ \A j \in 1..(i - 1) : j \in UsedIds

\* a submission of (code, rollNo) is in the store
Stored(code, rollNo) ==
  \E s \in BagToSet(subs) : s.quizCode = code /\ s.rollNo = rollNo

\* ---------------------------------------------------------------- Init
Init ==
  /\ quizzes = {}
  /\ subs = EmptyBag
  /\ now = 0
  /\ h = [p \in Procs |-> Idle]
  /\ out = NoOut

\* A handler is between its first store call and its response.
InFlight(p) == h[p].pc # "idle"

\* The handler goes on, with locals l.
Goto(p, l) ==
  /\ h' = [h EXCEPT ![p] = l]
  /\ out' = NoOut

\* The response is sent; the handler, with locals l, is over.
Reply(p, l, r) ==
  /\ h' = [h EXCEPT ![p] = Idle]
  /\ out' = [slot |-> p, call |-> l, resp |-> r]

\* The clock advances.
Tick ==
  /\ \E t \in Instants : t > now /\ now' = t
  /\ out' = NoOut
  /\ UNCHANGED <<quizzes, subs, h>>

\* ------------------------------------------------- POST /api/quiz/create
\* a validation of the title alone
InvalidDataTitleOnly(body) == body.title = ""

InvalidData(body) == body.title = "" \/ Len(body.questions) = 0

NewQuiz(id, code, user, duration, body) ==
  [id |-> id, code |-> code, title |-> body.title, duration |-> duration,
   creatorId |-> user, status |-> "created", startTime |-> NoTime,
   endTime |-> NoTime, questions |-> body.questions]

\* a collection without the unique index
DuplicateCodeUnchecked(code) == FALSE

\* the unique index on code rejects a second quiz with the same code
DuplicateCode(code) == \E q \in quizzes : q.code = code

CreateQuiz(p, in) ==
  \E user \in in.users, body \in in.bodies, code \in in.codes, duration \in Durations :
    LET l == [Idle EXCEPT !.pc = "create",
                !.req = [NoReq EXCEPT !.op = "create", !.user = user, !.code = code,
                                      !.body = body]]
    IN /\ ~InFlight(p)
       /\ IF InvalidData(body)
            THEN /\ Reply(p, l, Resp(400, "Invalid data", <<>>))
                 /\ UNCHANGED quizzes
            ELSE IF DuplicateCode(code)
              THEN /\ Reply(p, l, Thrown("E11000 duplicate key"))
                   /\ UNCHANGED quizzes
              ELSE /\ quizzes' = quizzes \cup {NewQuiz(FreshId, code, user, duration, body)}
                   /\ Reply(p, l, Resp(200, "", NewQuiz(FreshId, code, user, duration, body)))
       /\ UNCHANGED <<subs, now>>

\* ------------------------------------------------- GET /api/quiz/:code
\* an ownership check that lets everyone pass
NotOwnerUnchecked(q, user) == FALSE

NotOwner(q, user) == q.creatorId # user

GetQuiz(p, in) ==
  \E user \in in.users, code \in in.codes :
    LET l == [Idle EXCEPT !.pc = "get", !.quiz = FindQuiz(code),
                !.req = [NoReq EXCEPT !.op = "get", !.user = user, !.code = code]]
    IN /\ ~InFlight(p)
       /\ IF l.quiz = NoQuiz
            THEN Reply(p, l, Resp(404, "Quiz not found", <<>>))
            ELSE IF NotOwner(l.quiz, user)
              THEN Reply(p, l, Resp(403, "Access denied", <<>>))
              ELSE Reply(p, l, Resp(200, "", l.quiz))
       /\ UNCHANGED <<quizzes, subs, now>>

\* -------------------------------------------- POST /api/quiz/start/:code
\* startQuiz without its status check
AlreadyLiveUnchecked(q) == FALSE

AlreadyLive(q) == q.status = "live"

\* lines 163-170: the read of the quiz and the checks on it
StartQuiz(p, in) ==
  \E user \in in.users, code \in in.codes :
    LET l == [Idle EXCEPT !.pc = "start", !.quiz = FindQuiz(code),
                !.req = [NoReq EXCEPT !.op = "start", !.user = user, !.code = code]]
    IN /\ ~InFlight(p)
       /\ IF l.quiz = NoQuiz
            THEN Reply(p, l, Resp(404, "Quiz not found", <<>>))
            ELSE IF NotOwner(l.quiz, user)
              THEN Reply(p, l, Resp(403, "Not your quiz", <<>>))
              ELSE IF AlreadyLive(l.quiz)
                THEN Reply(p, l, Resp(400, "Quiz already live", <<>>))
                ELSE Goto(p, [l EXCEPT !.pc = "start_stamp"])
       /\ UNCHANGED <<quizzes, subs, now>>

\* quiz.endTime on line 174, from the second read of the clock
EndTime(t, duration) == t + duration * MsPerSecond

\* lines 172-174: new Date() and then Date.now(), two reads of the clock
StartStamp(p) ==
  /\ h[p].pc = "start_stamp"
  /\ \E t2 \in Instants :
       /\ t2 >= now /\ t2 <= now + MaxSkewMs
       /\ now' = t2
       /\ Goto(p, [h[p] EXCEPT !.pc = "start_save",
                     !.quiz = [h[p].quiz EXCEPT !.status = "live", !.startTime = now,
                                 !.endTime = EndTime(t2, h[p].quiz.duration)]])
  /\ UNCHANGED <<quizzes, subs>>

\* quiz.save(): $set of the modified paths on the document with this _id
SaveQuiz(d) ==
  {IF q.id = d.id
     THEN [q EXCEPT !.status = d.status, !.startTime = d.startTime, !.endTime = d.endTime]
     ELSE q : q \in quizzes}

\* line 176
StartSave(p) ==
  /\ h[p].pc = "start_save"
  /\ IF \E q \in quizzes : q.id = h[p].quiz.id
       THEN /\ quizzes' = SaveQuiz(h[p].quiz)
            /\ Reply(p, h[p], Resp(200, "Quiz started", <<>>))
       ELSE /\ Reply(p, h[p], Thrown("DocumentNotFoundError"))
            /\ UNCHANGED quizzes
  /\ UNCHANGED <<subs, now>>

\* ----------------------------------------- DELETE /api/quiz/delete/:code
DeleteQuiz(p, in) ==
  \E user \in in.users, code \in in.codes :
    LET l == [Idle EXCEPT !.pc = "delete", !.quiz = FindQuiz(code),
                !.req = [NoReq EXCEPT !.op = "delete", !.user = user, !.code = code]]
    IN /\ ~InFlight(p)
       /\ IF l.quiz = NoQuiz
            THEN Reply(p, l, Resp(404, "Quiz not found", <<>>))
            ELSE IF NotOwner(l.quiz, user)
              THEN Reply(p, l, Resp(403, "Not your quiz", <<>>))
              ELSE Goto(p, [l EXCEPT !.pc = "delete_quiz"])
       /\ UNCHANGED <<quizzes, subs, now>>

\* line 188: Quiz.deleteOne({ code })
DeleteQuizDoc(p) ==
  /\ h[p].pc = "delete_quiz"
  /\ quizzes' = {q \in quizzes : q.code # h[p].quiz.code}
  /\ Goto(p, [h[p] EXCEPT !.pc = "delete_subs"])
  /\ UNCHANGED <<subs, now>>

\* a deleteMany with no filter
WithoutAny(code) == EmptyBag

\* a delete without the cascade
CascadeSkipped(code) == subs

\* the collection after Submission.deleteMany({ quizCode: code })
WithoutCode(code) ==
  [s \in {x \in BagToSet(subs) : x.quizCode # code} |-> subs[s]]

\* line 189: Submission.deleteMany({ quizCode })
DeleteSubs(p) ==
  /\ h[p].pc = "delete_subs"
  /\ subs' = WithoutCode(h[p].quiz.code)
  /\ h' = [q \in Procs |->
            IF q = p THEN Idle
            ELSE IF h[q].req.op = "submit" /\ h[q].req.code = h[p].quiz.code
              THEN [h[q] EXCEPT !.purged = TRUE]
              ELSE h[q]]
  /\ out' = [slot |-> p, call |-> h[p], resp |-> Resp(200, "Quiz deleted", <<>>)]
  /\ UNCHANGED <<quizzes, now>>

\* ---------------------------------------------- POST /api/quiz/join/:code
\* an existence check that finds nothing
SubmissionExistsUnchecked(code, rollNo) == FALSE

\* Submission.findOne({ quizCode, rollNo }) finds a document
SubmissionExists(code, rollNo) ==
  \E s \in BagToSet(subs) : s.quizCode = code /\ s.rollNo = rollNo

\* joinQuiz without its status check
NotLiveUnchecked(q) == FALSE

NotLive(q) == q.status # "live"

\* lines 201-206
JoinQuiz(p, in) ==
  \E code \in in.codes, rollNo \in in.rollNos :
    LET l == [Idle EXCEPT !.pc = "join", !.quiz = FindQuiz(code),
                !.req = [NoReq EXCEPT !.op = "join", !.code = code, !.rollNo = rollNo]]
    IN /\ ~InFlight(p)
       /\ IF l.quiz = NoQuiz
            THEN Reply(p, l, Resp(404, "Quiz not found", <<>>))
            ELSE IF NotLive(l.quiz)
              THEN Reply(p, l, Resp(200, "", [status |-> l.quiz.status]))
              ELSE Goto(p, [l EXCEPT !.pc = "join_check"])
       /\ UNCHANGED <<quizzes, subs, now>>

\* lines 208-209
JoinCheck(p) ==
  /\ h[p].pc = "join_check"
  /\ IF After(now, h[p].quiz.endTime)
       THEN Reply(p, [h[p] EXCEPT !.tchk = now], Resp(400, "Quiz ended", <<>>))
       ELSE Goto(p, [h[p] EXCEPT !.pc = "join_find", !.tchk = now])
  /\ UNCHANGED <<quizzes, subs, now>>

\* lines 211-214
JoinFind(p) ==
  /\ h[p].pc = "join_find"
  /\ LET l == [h[p] EXCEPT !.found = SubmissionExists(h[p].quiz.code, h[p].req.rollNo)]
     IN IF l.found
          THEN Reply(p, l, Resp(400, "Already attempted", <<>>))
          ELSE Reply(p, l, Resp(200, "", [status |-> "allowed",
                                          endTime |-> l.quiz.endTime]))
  /\ UNCHANGED <<quizzes, subs, now>>

\* ----------------------------------------- GET /api/quiz/questions/:code
\* the question sent whole
RedactNothing(q) == q

Redact(q) == [text |-> q.text, options |-> q.options]

GetQuestions(p, in) ==
  \E code \in in.codes :
    LET l == [Idle EXCEPT !.pc = "questions", !.quiz = FindQuiz(code),
                !.req = [NoReq EXCEPT !.op = "questions", !.code = code]]
    IN /\ ~InFlight(p)
       /\ IF l.quiz = NoQuiz \/ NotLive(l.quiz)
            THEN Reply(p, l, Resp(400, "Quiz not live", <<>>))
            ELSE Reply(p, l, Resp(200, "",
                   [endTime |-> l.quiz.endTime,
                    questions |-> [i \in DOMAIN l.quiz.questions |->
                                     Redact(l.quiz.questions[i])]]))
       /\ UNCHANGED <<quizzes, subs, now>>

\* -------------------------------------------- POST /api/quiz/submit/:code
\* answers[i] of the JavaScript array (0-based); undefined past its end
AnswerAt(answers, i) == IF i < Len(answers) THEN answers[i + 1] ELSE Undefined

\* lines 245-248
Score(questions, answers) ==
  Cardinality({i \in 0..(Len(questions) - 1) :
                 AnswerAt(answers, i) = questions[i + 1].correctIndex})

\* the submit handlers in flight, each of which may still insert a document
Pending == Cardinality({q \in Procs : h[q].req.op = "submit"})

SameSubmit(q, code, rollNo) ==
  h[q].req.op = "submit" /\ h[q].req.code = code /\ h[q].req.rollNo = rollNo

SubmitOverlaps(p, code, rollNo) == \E q \in Procs \ {p} : SameSubmit(q, code, rollNo)

\* lines 235-238
SubmitAnswers(p, in) ==
  \E code \in in.codes, rollNo \in in.rollNos, answers \in in.answers :
    LET l == [Idle EXCEPT !.pc = "submit", !.quiz = FindQuiz(code),
                !.req = [NoReq EXCEPT !.op = "submit", !.code = code,
                                      !.rollNo = rollNo, !.answers = answers],
                !.prior = Stored(code, rollNo)]
    IN /\ ~InFlight(p)
       /\ BagCardinality(subs) + Pending < MaxSubs
       /\ IF l.quiz = NoQuiz
            THEN Reply(p, l, Resp(404, "Quiz not found", <<>>))
            ELSE /\ h' = [q \in Procs |->
                           IF q = p
                             THEN [l EXCEPT !.pc = "submit_check",
                                            !.raced = SubmitOverlaps(p, code, rollNo)]
                           ELSE IF SameSubmit(q, code, rollNo)
                             THEN [h[q] EXCEPT !.raced = TRUE]
                             ELSE h[q]]
                 /\ out' = NoOut
       /\ UNCHANGED <<quizzes, subs, now>>

\* lines 239-240
SubmitCheck(p) ==
  /\ h[p].pc = "submit_check"
  /\ IF After(now, h[p].quiz.endTime)
       THEN Reply(p, [h[p] EXCEPT !.tchk = now], Resp(400, "Time over", <<>>))
       ELSE Goto(p, [h[p] EXCEPT !.pc = "submit_find", !.tchk = now])
  /\ UNCHANGED <<quizzes, subs, now>>

\* lines 242-243
SubmitFind(p) ==
  /\ h[p].pc = "submit_find"
  /\ LET l == [h[p] EXCEPT !.found = SubmissionExists(h[p].quiz.code, h[p].req.rollNo)]
     IN IF l.found
          THEN Reply(p, l, Resp(400, "Already submitted", <<>>))
          ELSE Goto(p, [l EXCEPT !.pc = "submit_score"])
  /\ UNCHANGED <<quizzes, subs, now>>

\* lines 245-258: the score and the new document, stamped with new Date()
SubmitScore(p) ==
  /\ h[p].pc = "submit_score"
  /\ Goto(p, [h[p] EXCEPT !.pc = "submit_insert",
                !.doc = [quizCode |-> h[p].quiz.code, name |-> "n",
                         branch |-> "b", rollNo |-> h[p].req.rollNo,
                         answers |-> h[p].req.answers,
                         score |-> Score(h[p].quiz.questions, h[p].req.answers),
                         submittedAt |-> now]])
  /\ UNCHANGED <<quizzes, subs, now>>

\* lines 250-260: Submission.create and the response
SubmitInsert(p) ==
  /\ h[p].pc = "submit_insert"
  /\ subs' = subs (+) SetToBag({h[p].doc})
  /\ Reply(p, h[p], Resp(200, "", [score |-> h[p].doc.score,
                                   total |-> Len(h[p].quiz.questions)]))
  /\ UNCHANGED <<quizzes, now>>

\* ------------------------------------------ GET /api/quiz/leaderboard/:code
\* Submission.find({ quizCode: code }): the documents of the code
SubsOf(code) ==
  [s \in {x \in BagToSet(subs) : x.quizCode = code} |-> subs[s]]

\* the sequences that hold the documents of bag B, each as often as B does
Listings(B) ==
  {r \in [1..BagCardinality(B) -> BagToSet(B)] :
     \A s \in BagToSet(B) : Cardinality({i \in DOMAIN r : r[i] = s}) = B[s]}

\* a sort on score alone, ascending
RanksBeforeAscending(a, b) == a.score <= b.score

\* sort({ score: -1, submittedAt: 1 }): a may come before b
RanksBefore(a, b) ==
  \/ a.score > b.score
  \/ a.score = b.score /\ a.submittedAt <= b.submittedAt

\* the orders the sort may return; documents equal in both keys come in
\* any order
Rankings(code) ==
  {r \in Listings(SubsOf(code)) :
     \A i, j \in DOMAIN r : i < j => RanksBefore(r[i], r[j])}

\* select("name rollNo score")
Entry(s) == [name |-> s.name, rollNo |-> s.rollNo, score |-> s.score]

Leaderboard(p, in) ==
  \E code \in in.codes : \E rows \in Rankings(code) :
    LET l == [Idle EXCEPT !.pc = "leaderboard", !.rows = rows,
                !.req = [NoReq EXCEPT !.op = "leaderboard", !.code = code]]
    IN /\ ~InFlight(p)
       /\ Reply(p, l, Resp(200, "", [i \in DOMAIN rows |-> Entry(rows[i])]))
       /\ UNCHANGED <<quizzes, subs, now>>

\* ---------------------------------------------- GET /api/quiz/summary/:code
RECURSIVE SumScores(_)
\* subs.reduce((a, b) => a + b.score, 0)
SumScores(rows) ==
  IF rows = <<>> THEN 0 ELSE rows[1].score + SumScores(Tail(rows))

\* Math.max(...subs.map(s => s.score))
MaxScore(rows) ==
  CHOOSE m \in {rows[i].score : i \in DOMAIN rows} :
    \A i \in DOMAIN rows : rows[i].score <= m

RECURSIVE Gcd(_, _)
Gcd(a, b) == IF b = 0 THEN a ELSE Gcd(b, a % b)

\* the number n / d (d > 0), as a fraction in lowest terms
Quotient(n, d) == [num |-> n \div Gcd(n, d), den |-> d \div Gcd(n, d)]

\* a division that keeps the whole part only
AverageWhole(rows) ==
  IF Len(rows) = 0 THEN Quotient(0, 1) ELSE Quotient(SumScores(rows) \div Len(rows), 1)

\* lines 282-284
Average(rows) ==
  IF Len(rows) = 0 THEN Quotient(0, 1) ELSE Quotient(SumScores(rows), Len(rows))

\* line 281
Highest(rows) == IF Len(rows) = 0 THEN 0 ELSE MaxScore(rows)

Summary(p, in) ==
  \E code \in in.codes : \E rows \in Listings(SubsOf(code)) :
    LET l == [Idle EXCEPT !.pc = "summary", !.rows = rows,
                !.req = [NoReq EXCEPT !.op = "summary", !.code = code]]
    IN /\ ~InFlight(p)
       /\ Reply(p, l, Resp(200, "", [total |-> Len(rows), highest |-> Highest(rows),
                                      average |-> Average(rows)]))
       /\ UNCHANGED <<quizzes, subs, now>>

\* ------------------------------------------------------------------ Next
\* the continuations of the handlers that write to the store
WriteSteps(p) ==
  \/ StartStamp(p)
  \/ StartSave(p)
  \/ DeleteQuizDoc(p)
  \/ DeleteSubs(p)
  \/ SubmitCheck(p)
  \/ SubmitFind(p)
  \/ SubmitScore(p)
  \/ SubmitInsert(p)

\* the continuations of joinQuiz
JoinSteps(p) ==
  \/ JoinCheck(p)
  \/ JoinFind(p)

Step(p) == WriteSteps(p) \/ JoinSteps(p)

\* the handlers that write to the store
Write(p, in) ==
  \/ CreateQuiz(p, in)
  \/ StartQuiz(p, in)
  \/ DeleteQuiz(p, in)
  \/ SubmitAnswers(p, in)

\* the handlers that report on the submissions
Results(p, in) ==
  \/ Leaderboard(p, in)
  \/ Summary(p, in)

\* the handlers that only read the store
Read(p, in) ==
  \/ GetQuiz(p, in)
  \/ JoinQuiz(p, in)
  \/ GetQuestions(p, in)
  \/ Results(p, in)

Request(p, in) == Write(p, in) \/ Read(p, in)

\* Two handlers that only read do not affect each other (neither changes what
\* the other reads), so a reader runs in slot 1 only, beside any writer.
Next ==
  \/ Tick
  \/ \E p \in Procs : Write(p, Lean)
  \/ Read(1, Lean)
  \/ \E p \in Procs : Step(p)

Spec == Init /\ [][Next]_vars

SeqNext ==
  \/ Tick
  \/ Request(1, Rich)
  \/ Step(1)

SeqSpec == Init /\ [][SeqNext]_vars

\* the handlers that write, and the reports, on two quiz codes
WideNext ==
  \/ Tick
  \/ Write(1, Wide)
  \/ Results(1, Wide)
  \/ WriteSteps(1)

WideSpec == Init /\ [][WideNext]_vars

\* ================================================================ claims
\* the exchange completed by the last step
Call == out.call
Said(op) == out.call.req.op = op

\* the number of stored submissions of (code, rollNo)
SubCount(code, rollNo) ==
  LET S == {s \in BagToSet(subs) : s.quizCode = code /\ s.rollNo = rollNo}
  IN BagCardinality([s \in S |-> subs[s]])

\* the clock value t lies past the end of quiz q
Expired(t, q) == q.endTime # NoTime /\ t > q.endTime

\* slot p takes a step of its handler
Moves(p) == h'[p] # h[p]

\* C1: the response of getQuestionsForParticipant holds, for each question,
\* only text and options, and on failure no question data at all.
C1_QuestionsRedacted ==
  Said("questions") =>
    IF out.resp.status = 200
      THEN /\ Len(out.resp.data.questions) = Len(Call.quiz.questions)
           /\ \A i \in DOMAIN out.resp.data.questions :
                DOMAIN out.resp.data.questions[i] = {"text", "options"}
      ELSE out.resp.data = <<>>

\* C1 witness: the questions of a live quiz whose stored questions carry a
\* correctIndex have been served.
C1_Witness ==
  /\ Said("questions")
  /\ out.resp.status = 200
  /\ \E i \in DOMAIN Call.quiz.questions : Call.quiz.questions[i].correctIndex = 1

\* C2 as stated: under any interleaving of submitAnswers calls, the store
\* holds at most one Submission for each (quizCode, rollNo).
C2_AtMostOneSubmission ==
  \A code \in Codes, rollNo \in Rich.rollNos : SubCount(code, rollNo) <= 1

\* C2 amended: a Submission is inserted for a (quizCode, rollNo) that already
\* has one only by a submitAnswers call that was in flight together with
\* another submitAnswers call for the same pair.
C2_SecondSubmissionOnlyByRace ==
  (Call.pc = "submit_insert" /\ SubCount(Call.doc.quizCode, Call.doc.rollNo) > 1)
    => Call.raced

\* C2 witness: two overlapping calls have both inserted.
C2_Witness ==
  /\ Call.pc = "submit_insert"
  /\ SubCount(Call.doc.quizCode, Call.doc.rollNo) > 1
  /\ Call.raced

\* a submitAnswers call that began when a Submission of its (code, rollNo)
\* was stored ends in this step
LaterSubmitEnds ==
  /\ out'.slot # 0
  /\ out'.call.req.op = "submit"
  /\ out'.call.prior
  /\ h'[out'.slot] # h[out'.slot]

\* C3 as stated: a submitAnswers call made after a successful one with the
\* same (code, rollNo) fails with "Already submitted" and stores nothing.
C3_LaterSubmitAlreadyAttempted ==
  [][LaterSubmitEnds =>
       /\ out'.resp = Resp(400, "Already submitted", <<>>)
       /\ subs' = subs]_vars

\* the call that ends in this step is refused with r and stores nothing
Refused(r) == out'.resp = r /\ subs' = subs

\* C3 amended: a submitAnswers call that begins while a Submission of its
\* (code, rollNo) is stored fails with "Quiz not found" when the quiz document
\* is gone, else with "Time over" when its expiry check reads a clock past
\* endTime, else with "Already submitted", and stores nothing; only when the
\* deleteMany of deleteQuiz has removed the submissions of the code while the
\* call was in flight can its existence check find nothing and the call be
\* accepted.
C3_LaterSubmitFails ==
  [][LaterSubmitEnds =>
       IF out'.call.quiz = NoQuiz THEN Refused(Resp(404, "Quiz not found", <<>>))
       ELSE IF Expired(out'.call.tchk, out'.call.quiz)
         THEN Refused(Resp(400, "Time over", <<>>))
       ELSE IF ~out'.call.purged
         THEN Refused(Resp(400, "Already submitted", <<>>))
       ELSE \/ Refused(Resp(400, "Already submitted", <<>>))
            \/ /\ out'.resp.status = 200
               /\ subs' = subs (+) SetToBag({out'.call.doc})]_vars

\* C3 witness: a later call has been refused as already submitted.
C3_Witness ==
  /\ Said("submit")
  /\ Call.prior
  /\ ~Call.purged
  /\ out.resp = Resp(400, "Already submitted", <<>>)

\* the score as the claim counts it: the indices inside the answers list
\* whose entry equals the question's correctIndex
ClaimedScore(questions, answers) ==
  Cardinality({i \in 1..Len(questions) :
                 i <= Len(answers) /\ answers[i] = questions[i].correctIndex})

\* C4: the returned and stored score of an accepted submitAnswers
\* call is the number of indices i with answers[i] == questions[i].correctIndex,
\* a missing entry being no match; 0 <= score <= number of questions, and
\* total is the number of questions.
C4_ScoreCountsMatches ==
  Call.pc = "submit_insert" =>
    /\ out.resp.data.score = ClaimedScore(Call.quiz.questions, Call.req.answers)
    /\ Call.doc.score = out.resp.data.score
    /\ out.resp.data.score \in 0..Len(Call.quiz.questions)
    /\ out.resp.data.total = Len(Call.quiz.questions)

\* C5: a submitAnswers call whose expiry check reads a clock past the endTime
\* of the quiz it read fails with "Time over", whatever its answers, and
\* stores nothing.
C5_TimeOver ==
  [][\A p \in Procs :
       (h[p].pc = "submit_check" /\ Expired(now, h[p].quiz) /\ Moves(p))
         => /\ out'.slot = p
            /\ out'.resp = Resp(400, "Time over", <<>>)
            /\ subs' = subs]_vars

\* C5 witness: a call with all answers right has been refused as too late.
C5_Witness ==
  /\ Said("submit")
  /\ out.resp = Resp(400, "Time over", <<>>)
  /\ Len(Call.req.answers) = Len(Call.quiz.questions)
  /\ \A i \in DOMAIN Call.req.answers :
       Call.req.answers[i] = Call.quiz.questions[i].correctIndex

\* C6: every stored Submission belongs to a quiz that has been live; no
\* Submission is stored for a quiz that is still in status created.
C6_NoSubmissionBeforeStart ==
  \A s \in BagToSet(subs), q \in quizzes : q.code = s.quizCode => q.status = "live"

\* a startQuiz request of the quiz's creator reads, in this step of slot p,
\* a quiz that is live
OwnerStartsLive(p) ==
  LET l == IF h'[p].pc = "idle" THEN out'.call ELSE h'[p]
  IN /\ h[p].pc = "idle"
     /\ Moves(p) \/ out'.slot = p
     /\ l.req.op = "start"
     /\ \E q \in quizzes :
          /\ q.code = l.req.code
          /\ q.status = "live"
          /\ q.creatorId = l.req.user

\* C7: startQuiz by the owner on a quiz that is live fails with "Quiz already
\* live" and leaves the quiz as it is.
C7_StartOnLiveRejected ==
  [][\A p \in Procs :
       OwnerStartsLive(p)
         => /\ h'[p].pc = "idle"
            /\ out'.slot = p
            /\ out'.resp = Resp(400, "Quiz already live", <<>>)
            /\ quizzes' = quizzes]_vars

\* C7 witness: a start of a live quiz has been refused.
C7_Witness ==
  /\ Said("start")
  /\ Call.quiz.status = "live"
  /\ out.resp = Resp(400, "Quiz already live", <<>>)

\* C8: a live quiz has endTime - startTime equal to its duration,
\* and a created quiz has neither time set.
C8_EndIsStartPlusDuration ==
  \A q \in quizzes :
    /\ q.status = "live" => q.endTime - q.startTime = q.duration * MsPerSecond
    /\ q.status = "created" => q.startTime = NoTime /\ q.endTime = NoTime

\* the times of a stored quiz that has them are written anew in this step
Restamped(q) ==
  /\ q.startTime # NoTime
  /\ \E q2 \in quizzes' :
       q2.id = q.id /\ (q2.startTime # q.startTime \/ q2.endTime # q.endTime)

JoinDecision(c) ==
  IF c.quiz = NoQuiz THEN Resp(404, "Quiz not found", <<>>)
  ELSE IF c.quiz.status # "live" THEN Resp(200, "", [status |-> c.quiz.status])
  ELSE IF c.tchk > c.quiz.endTime THEN Resp(400, "Quiz ended", <<>>)
  ELSE IF c.found THEN Resp(400, "Already attempted", <<>>)
  ELSE Resp(200, "", [status |-> "allowed", endTime |-> c.quiz.endTime])

Allowed == out.resp.status = 200 /\ out.resp.data.status = "allowed"

\* C10: joinQuiz answers by the checks NotFound, not live, QuizEnded,
\* AlreadyAttempted in this order, on what its reads returned (the quiz, the
\* clock, the submission of the store), and answers Allowed exactly when the
\* quiz exists, is live, the clock read is not past endTime and no Submission
\* of (code, rollNo) is stored.
C10_JoinDecision ==
  Said("join") =>
    /\ out.resp = JoinDecision(Call)
    /\ Call.pc = "join" => Call.quiz = FindQuiz(Call.req.code) /\ Call.tchk = NoTime
    /\ Call.pc = "join_check" => Call.tchk = now
    /\ Call.pc = "join_find" => (Call.found <=> Stored(Call.quiz.code, Call.req.rollNo))
    /\ Allowed <=> /\ Call.quiz # NoQuiz
                   /\ Call.quiz.status = "live"
                   /\ Call.tchk # NoTime
                   /\ Call.tchk <= Call.quiz.endTime
                   /\ Call.pc = "join_find"
                   /\ ~Stored(Call.quiz.code, Call.req.rollNo)

\* C10 witness: a participant has been admitted.
C10_Witness == Said("join") /\ Allowed

\* the stored quizzes of this code that are live
LiveQuizzes(code) == {q \in quizzes : q.code = code /\ q.status = "live"}

\* C11: getQuestionsForParticipant returns the questions and endTime of the
\* quiz if and only if a quiz of the code is stored and its status is live; in
\* every other case it fails with 400 "Quiz not live" and returns no data.
C11_QuestionsIffLive ==
  Said("questions") =>
    IF LiveQuizzes(Call.req.code) # {}
      THEN /\ out.resp.status = 200
           /\ \E q \in LiveQuizzes(Call.req.code) :
                /\ out.resp.data.endTime = q.endTime
                /\ Len(out.resp.data.questions) = Len(q.questions)
                /\ \A i \in DOMAIN q.questions :
                     /\ out.resp.data.questions[i].text = q.questions[i].text
                     /\ out.resp.data.questions[i].options = q.questions[i].options
      ELSE out.resp = Resp(400, "Quiz not live", <<>>)

\* C11 witness: the questions of a quiz in status created have been refused.
C11_Witness ==
  /\ Said("questions")
  /\ out.resp = Resp(400, "Quiz not live", <<>>)
  /\ \E q \in quizzes : q.code = Call.req.code /\ q.status = "created"

\* the locals of the request that slot p receives in this step
Received(p) == IF h'[p].pc = "idle" THEN out'.call ELSE h'[p]

\* slot p receives a request in this step
Receives(p) == h[p].pc = "idle" /\ (Moves(p) \/ out'.slot = p)

\* the request of slot p ends in this step with status code c and no data,
\* and the store is as it was
Rejected(p, c) ==
  /\ h'[p].pc = "idle"
  /\ out'.slot = p
  /\ out'.resp.status = c
  /\ out'.resp.data = <<>>
  /\ quizzes' = quizzes
  /\ subs' = subs

\* C12: getQuiz, startQuiz and deleteQuiz fail with 404 for a code no stored
\* quiz has and with 403 for a requester who is not the quiz's creator; the
\* call ends there, returns no quiz data, and no quiz and no submission is
\* created, modified or deleted.
C12_NotFoundForbidden ==
  [][\A p \in Procs :
       (Receives(p) /\ Received(p).req.op \in {"get", "start", "delete"})
         => IF \A q \in quizzes : q.code # Received(p).req.code
              THEN Rejected(p, 404) /\ out'.resp.msg = "Quiz not found"
            ELSE IF \A q \in quizzes : q.code = Received(p).req.code
                                          => q.creatorId # Received(p).req.user
              THEN Rejected(p, 403)
              ELSE TRUE]_vars

\* C12 witness: a deleteQuiz of somebody else's quiz has been refused.
C12_Witness ==
  /\ Said("delete")
  /\ out.resp.status = 403
  /\ \E q \in quizzes : q.code = Call.req.code /\ q.creatorId # Call.req.user

\* C13: createQuiz with an empty questions list or without a title fails with
\* 400 "Invalid data" and persists no quiz; every quiz that createQuiz
\* persists has status created, no times, a non-empty questions list and the
\* caller as creatorId.
C13_CreateValidated ==
  [][\A p \in Procs :
       (Receives(p) /\ Received(p).req.op = "create")
         => /\ (Received(p).req.body.title = "" \/ Len(Received(p).req.body.questions) = 0)
                 => Rejected(p, 400) /\ out'.resp.msg = "Invalid data"
            /\ \A q \in quizzes' \ quizzes :
                 /\ q.status = "created"
                 /\ q.startTime = NoTime /\ q.endTime = NoTime
                 /\ Len(q.questions) > 0
                 /\ q.title # ""
                 /\ q.creatorId = Received(p).req.user]_vars

\* C13 witness: a quiz without questions has been refused.
C13_Witness ==
  /\ Said("create")
  /\ out.resp = Resp(400, "Invalid data", <<>>)
  /\ Call.req.body.title # ""
  /\ Len(Call.req.body.questions) = 0

\* the stored submissions of a code, and how many they are
OfCode(code) == {s \in BagToSet(subs) : s.quizCode = code}
CountOfCode(code) == BagCardinality([s \in OfCode(code) |-> subs[s]])

\* C14: leaderboard(code) returns exactly the stored submissions whose quizCode
\* is code, each once, as name, rollNo and score, ordered by score descending
\* and among equal scores by submittedAt ascending; a submission scoring 2
\* stands above one scoring 1.
C14_LeaderboardRanked ==
  Said("leaderboard") =>
    /\ out.resp.status = 200
    /\ Len(Call.rows) = CountOfCode(Call.req.code)
    /\ \A i \in DOMAIN Call.rows : Call.rows[i] \in OfCode(Call.req.code)
    /\ \A s \in OfCode(Call.req.code) :
         Cardinality({i \in DOMAIN Call.rows : Call.rows[i] = s}) = subs[s]
    /\ \A i, j \in DOMAIN Call.rows :
         i < j => \/ Call.rows[i].score > Call.rows[j].score
                  \/ /\ Call.rows[i].score = Call.rows[j].score
                     /\ Call.rows[i].submittedAt <= Call.rows[j].submittedAt
    /\ DOMAIN out.resp.data = DOMAIN Call.rows
    /\ \A i \in DOMAIN Call.rows :
         out.resp.data[i] = [name |-> Call.rows[i].name, rollNo |-> Call.rows[i].rollNo,
                             score |-> Call.rows[i].score]

\* C14 witness: after a submission scoring 2 and a later one, of another
\* rollNo, scoring 1, the leaderboard lists the first above the second.
C14_Witness ==
  /\ Said("leaderboard")
  /\ Len(out.resp.data) = 2
  /\ out.resp.data[1].score = 2
  /\ out.resp.data[2].score = 1
  /\ out.resp.data[1].rollNo # out.resp.data[2].rollNo
  /\ Call.rows[1].submittedAt < Call.rows[2].submittedAt

RECURSIVE ScoreTotal(_)
\* the sum of the scores of the stored submissions in the set S, each counted
\* as often as it is stored
ScoreTotal(S) ==
  IF S = {} THEN 0
  ELSE LET s == CHOOSE x \in S : TRUE
       IN s.score * subs[s] + ScoreTotal(S \ {s})

\* C15: summary(code) returns total = the number of stored submissions of the
\* code, highest = the greatest score among them and average = the sum of
\* their scores divided by total; with no submissions it returns total 0,
\* highest 0 and average 0.
C15_SummaryFigures ==
  Said("summary") =>
    /\ out.resp.status = 200
    /\ out.resp.data.total = CountOfCode(Call.req.code)
    /\ IF OfCode(Call.req.code) = {}
         THEN /\ out.resp.data.highest = 0
              /\ out.resp.data.average = [num |-> 0, den |-> 1]
         ELSE /\ \E s \in OfCode(Call.req.code) : s.score = out.resp.data.highest
              /\ \A s \in OfCode(Call.req.code) : s.score <= out.resp.data.highest
              /\ out.resp.data.average.den > 0
              /\ out.resp.data.average.num * out.resp.data.total
                   = ScoreTotal(OfCode(Call.req.code)) * out.resp.data.average.den

\* C15 witness: the summary of two submissions scoring 2 and 1, beside a code
\* that has none.
C15_Witness ==
  /\ Said("summary")
  /\ out.resp.data = [total |-> 2, highest |-> 2, average |-> [num |-> 3, den |-> 2]]

\* C16: no two stored quizzes have the same code, for any sequence and
\* interleaving of createQuiz calls and any codes the generator returns.
C16_CodesUnique ==
  \A q1, q2 \in quizzes : q1.code = q2.code => q1 = q2

\* C16 witness: the generator has returned the code of a stored quiz, and the
\* store has refused the second quiz.
C16_Witness ==
  /\ Said("create")
  /\ out.resp = Thrown("E11000 duplicate key")
  /\ \E q \in quizzes : q.code = Call.req.code

\* no handler is in flight
Quiet == \A p \in Procs : h[p].pc = "idle"

\* no stored quiz has the code
NoQuizOf(code) == \A q \in quizzes : q.code # code

\* C17 as stated: under any interleaving of deleteQuiz with submitAnswers
\* calls for the same code, once all calls have returned every stored
\* Submission refers to an existing quiz.
C17_NoOrphanSubmission ==
  Quiet => \A s \in BagToSet(subs) : ~NoQuizOf(s.quizCode)

\* C17 amended: the deleteMany of deleteQuiz leaves no Submission with the
\* quizCode in the store at the moment it runs; a Submission is stored for a
\* code that no stored quiz has only by a submitAnswers call that read the quiz
\* before the deleteOne removed it, either before the deleteMany (which then
\* removes it) or after it (and then it stays).
C17_OrphanOnlyByRace ==
  [][\A p \in Procs :
       /\ (h[p].pc = "delete_subs" /\ Moves(p))
            => \A s \in BagToSet(subs') : s.quizCode # h[p].quiz.code
       /\ (h[p].pc = "submit_insert" /\ Moves(p) /\ NoQuizOf(h[p].doc.quizCode))
            => \/ h[p].purged
               \/ \E r \in Procs \ {p} : /\ h[r].pc = "delete_subs"
                                         /\ h[r].quiz.code = h[p].doc.quizCode]_vars

\* C17 witness: all calls have returned, the deleteMany ran while a submit
\* for the code was in flight, and the Submission it inserted has no quiz.
C17_Witness ==
  /\ Quiet
  /\ Call.pc = "submit_insert"
  /\ Call.purged
  /\ Call.doc \in BagToSet(subs)
  /\ NoQuizOf(Call.doc.quizCode)

\* C18: a stored Submission is never modified; a step either leaves the
\* submissions as they are, or adds the one document a submitAnswers call
\* inserts, or is the deleteMany of a deleteQuiz and removes the submissions of
\* its quizCode and no others.
C18_SubmissionsImmutable ==
  [][\/ subs' = subs
     \/ \E p \in Procs : /\ h[p].pc = "submit_insert"
                         /\ Moves(p)
                         /\ subs' = subs (+) SetToBag({h[p].doc})
     \/ \E p \in Procs : /\ h[p].pc = "delete_subs"
                         /\ Moves(p)
                         /\ DOMAIN subs' = {s \in DOMAIN subs : s.quizCode # h[p].quiz.code}
                         /\ \A s \in DOMAIN subs' : subs'[s] = subs[s]]_vars

\* C18 witness: a deleteQuiz has completed and the submission of another code
\* is still stored.
C18_Witness ==
  /\ Said("delete")
  /\ Call.pc = "delete_subs"
  /\ \E s \in BagToSet(subs) : s.quizCode # Call.quiz.code

\* a stored quiz of the code is live and its time has run out
LiveAndOver(code) ==
  \E q \in quizzes : q.code = code /\ q.status = "live" /\ now > q.endTime

C20_SubmittedBeforeEnd ==
  \A s \in BagToSet(subs), q \in quizzes :
    (q.code = s.quizCode /\ q.endTime # NoTime) => s.submittedAt <= q.endTime

\* C20 amended: every Submission stored by submitAnswers comes from a call
\* whose expiry check read a clock value not past the endTime of the quiz the
\* call had read, an unset endTime being never past; submittedAt is read from
\* the clock later, is not earlier than the checked value and may lie past
\* endTime.
C20_CheckedBeforeEnd ==
  Call.pc = "submit_insert" =>
    /\ Call.tchk # NoTime
    /\ Call.quiz.endTime # NoTime => Call.tchk <= Call.quiz.endTime
    /\ Call.tchk <= Call.doc.submittedAt
    /\ Call.doc.submittedAt <= now

\* C20 witness: a Submission has been stored with submittedAt past the
\* endTime its call had checked the clock against.
C20_Witness ==
  /\ Call.pc = "submit_insert"
  /\ Call.quiz.endTime # NoTime
  /\ Call.doc.submittedAt > Call.quiz.endTime
====
